---- MODULE Spec2Model ----
(***************************************************************************)
(* A model of airtable/airtable.py: the Airtable client class (pagination  *)
(* iterator, chunker, batch executor, single-call bulk entry points and    *)
(* mirror) running against a simulated Airtable table.                     *)
(*                                                                         *)
(* Python values are represented as follows.  A dict is a TLA+ record, a   *)
(* list is a sequence, None is the record None, a str that travels through *)
(* heterogeneous lists is the record Str(s), and a continuation token is   *)
(* the record Token(p): all of them are records, so any two of them can be *)
(* compared.                                                               *)
(***************************************************************************)
EXTENDS Integers, Sequences, FiniteSets, TLC

VARIABLES
    table,            \* the service: the records of the table, in service order
    nextId,           \* the service: the id the next created record gets
    table0,           \* the table as it was when the public call started
    op,               \* the public call in progress: name and arguments
    pc,               \* the position of the client inside that call
    offset,           \* get_iter: local offset
    data,             \* get_iter: local data (the last listing response)
    all_records,      \* get_all: local all_records
    func,             \* _batch_request: the bound method passed as func
    chunks,           \* _batch_request: the chunks of self.chunker(iterable)
    ci,               \* _batch_request: how many chunks the for loop has taken
    responses,        \* _batch_request: local responses
    deleted_records,  \* mirror: local deleted_records
    result,           \* what the public call returned or raised
    log,              \* every Transport request, time.sleep and yield, in order
    generators,       \* the frames of the generators made by separate get_iter calls
    pulls             \* which generator issued each listing request, in order

\* the variables of the generators a caller drives by hand
genvars == <<generators, pulls>>

vars == <<table, nextId, table0, op, pc, offset, data, all_records, func,
          chunks, ci, responses, deleted_records, result, log, generators, pulls>>

----------------------------------------------------------------------------
(* Bounds of the model *)

\* the largest table the service starts with
MaxTable == 11
\* the longest input of a batch call (insert/update/delete through _batch_request)
MaxItems == 23
\* the longest input of a single-call bulk entry point
MaxCall == 11
\* the longest input of mirror
MaxMirror == 2
\* the page_size a listing call may ask for (besides leaving it out)
SmallPage == 4

(* Program constants *)

MAX_RECORDS_PER_CALL == 10

----------------------------------------------------------------------------
(* Python values *)

None == [py |-> "None"]
Str(s) == [str |-> s]
EmptyStr == Str("")

\* a test for None in place of the truth test: `if offset is None`
IsNone(x) == x = None

\* bool(x) is False: the values the model passes to `not`
Falsy(x) == x = None \/ x = EmptyStr \/ x = <<>>

Min(a, b) == IF a < b THEN a ELSE b

\* seq[lo:hi] for 0 <= lo <= hi
Slice(seq, lo, hi) == SubSeq(seq, lo + 1, Min(hi, Len(seq)))

\* range(start, stop, step) for step > 0, as the sequence of its values
Range(start, stop, step) ==
    LET n == IF stop > start THEN (stop - start + step - 1) \div step ELSE 0
    IN  [i \in 1..n |-> start + (i - 1) * step]

\* d.get(key, default)
DictGet(d, key, default) == IF key \in DOMAIN d THEN d[key] ELSE default

\* iterating a dict yields its keys; the response dicts iterated here have one key
RECURSIVE SetToSeq(_)
SetToSeq(S) ==
    IF S = {} THEN <<>>
    ELSE LET x == CHOOSE y \in S : TRUE IN <<x>> \o SetToSeq(S \ {x})

DictKeys(d) == [i \in 1..Cardinality(DOMAIN d) |-> Str(SetToSeq(DOMAIN d)[i])]

\* the list replaced by the new items instead of extended by them
ReplaceWithList(list, x) == x

\* list.extend(x): appends the items x yields when iterated, which for a list
\* are its elements and for a dict are its keys
ExtendWithList(list, x) == list \o x

ExtendWithDict(list, d) == list \o DictKeys(d)

RECURSIVE Flatten(_)
Flatten(ss) == IF ss = <<>> THEN <<>> ELSE Head(ss) \o Flatten(Tail(ss))

----------------------------------------------------------------------------
(* The simulated service behind the Transport.  A record is                *)
(* [id |-> n, fields |-> [Name |-> v]]; createdTime is left out.           *)

\* the fields of the i-th item of pattern k: pattern 0 is all "A", pattern k > 0
\* has "B" at every k-th place
PatternFields(i, k) == [Name |-> IF k > 0 /\ i % k = 0 THEN "B" ELSE "A"]

Patterns == {0, 1, 2}

\* the patterns of the tables the service starts with
TablePatterns == {0, 2}

\* the table the service starts with: m records with ids 1..m
InitialTable(m, k) == [i \in 1..m |-> [id |-> i, fields |-> PatternFields(i, k)]]

Ids(records) == [i \in 1..Len(records) |-> records[i].id]

IdSet(records) == {records[i].id : i \in 1..Len(records)}

\* the page size of the listing endpoint when the request names none
DefaultPageSize == 100

\* AirtableParams.FormulaParam.from_name_and_value(field_name, field_value): the
\* formula {field_name}='field_value'
from_name_and_value(field_name, field_value) == [field |-> field_name, equals |-> field_value]

\* whether the listing endpoint shows record r under the query options (a dict
\* holding the keyword arguments given): view "V" is a filtered view showing the
\* records named "A"; a formula shows the records whose field equals its value (a
\* record without the field does not)
VisibleUnder(r, options) ==
    /\ ("view" \in DOMAIN options => DictGet(r.fields, "Name", "") = "A")
    /\ ("formula" \in DOMAIN options =>
           DictGet(r.fields, options.formula.field, "") = options.formula.equals)

\* the records the listing endpoint serves under the options, over all pages:
\* those the view and the formula show, cut at max_records
Visible(tbl, options) ==
    LET shown == SelectSeq(tbl, LAMBDA r : VisibleUnder(r, options))
    IN  IF "max_records" \in DOMAIN options THEN Slice(shown, 0, options.max_records)
        ELSE shown

\* a continuation token: the cursor after the first p visible records
Token(p) == [cursor |-> p]

\* the listing response for the request's offset param; a last page carries no
\* "offset" key, or (emptyToken) an empty one
ServiceList(tbl, options, off, emptyToken) ==
    LET v     == Visible(tbl, options)
        size  == DictGet(options, "page_size", DefaultPageSize)
        start == IF "cursor" \in DOMAIN off THEN off.cursor ELSE 0
        page  == Slice(v, Min(start, Len(v)), start + size)
    IN  IF start + size < Len(v)
        THEN [records |-> page, offset |-> Token(start + size)]
        ELSE IF emptyToken THEN [records |-> page, offset |-> EmptyStr]
        ELSE [records |-> page]

\* POST {"records": [{"fields": ...}, ...]}: creates one record per item, in order
ServiceCreate(tbl, nid, items) ==
    LET created == [i \in 1..Len(items) |-> [id |-> nid + i - 1, fields |-> items[i].fields]]
    IN  [table |-> tbl \o created, nextId |-> nid + Len(items),
         json |-> [records |-> created]]

\* PATCH {"records": [{"id": ..., "fields": ...}, ...]}: the last item naming a
\* record decides the fields it names; the record's other fields are left as is
RECURSIVE Patched(_, _)
Patched(r, items) ==
    IF items = <<>> THEN r
    ELSE IF items[Len(items)].id = r.id
         THEN [r EXCEPT !.fields = items[Len(items)].fields @@ r.fields]
         ELSE Patched(r, SubSeq(items, 1, Len(items) - 1))

ServiceUpdate(tbl, nid, items) ==
    LET tbl2 == [i \in 1..Len(tbl) |-> Patched(tbl[i], items)]
    IN  [table |-> tbl2, nextId |-> nid,
         json |-> [records |-> [i \in 1..Len(items) |->
                     [id |-> items[i].id, fields |-> items[i].fields]]]]

\* DELETE ?records[]=id&records[]=id...: one deletion confirmation per id, in order
ServiceDelete(tbl, nid, ids) ==
    LET gone == {ids[i] : i \in 1..Len(ids)}
    IN  [table |-> SelectSeq(tbl, LAMBDA r : r.id \notin gone), nextId |-> nid,
         json |-> [records |-> [i \in 1..Len(ids) |-> [deleted |-> TRUE, id |-> ids[i]]]]]

\* whether the service accepts a write naming these ids: every id must exist
IdsExist(tbl, ids) == \A i \in 1..Len(ids) : ids[i] \in IdSet(tbl)

\* POST {"fields": ...}: creates the one record; the response is the record
ServiceCreateOne(tbl, nid, fields) ==
    LET created == ServiceCreate(tbl, nid, <<[fields |-> fields]>>)
    IN  [table |-> created.table, nextId |-> created.nextId, json |-> created.json.records[1]]

\* the record of the table with this id
RecordOf(tbl, id) == LET i == CHOOSE i \in 1..Len(tbl) : tbl[i].id = id IN tbl[i]

\* PATCH <table>/<id> {"fields": ...}: as the bulk PATCH of that one record; the
\* response is the record
ServiceUpdateOne(tbl, nid, id, fields) ==
    LET tbl2 == ServiceUpdate(tbl, nid, <<[id |-> id, fields |-> fields]>>).table
    IN  [table |-> tbl2, nextId |-> nid,
         json |-> IF id \in IdSet(tbl2) THEN RecordOf(tbl2, id) ELSE <<>>]

\* PUT <table>/<id> {"fields": ...}: the record's fields become the fields given
ServiceReplaceOne(tbl, nid, id, fields) ==
    [table |-> [i \in 1..Len(tbl) |->
                  IF tbl[i].id = id THEN [tbl[i] EXCEPT !.fields = fields] ELSE tbl[i]],
     nextId |-> nid, json |-> [id |-> id, fields |-> fields]]

\* DELETE <table>/<id>
ServiceDeleteOne(tbl, nid, id) ==
    [table |-> ServiceDelete(tbl, nid, <<id>>).table, nextId |-> nid,
     json |-> [deleted |-> TRUE, id |-> id]]

----------------------------------------------------------------------------
(* _request and _process_response: one Transport round trip.  The outcome  *)
(* is [exc, value, table, nextId, log]: exc is "none" when the call        *)
(* returns value, else the exception raised; log is what the call appends  *)
(* to the log.  fault: the round trip ends in a non-2xx response.  A log    *)
(* entry of a request holds what was sent, whether it succeeded and the    *)
(* continuation token of the response (None when it carries none).         *)

Returned(value, tbl, nid, events) ==
    [exc |-> "none", value |-> value, table |-> tbl, nextId |-> nid, log |-> events]

Raised(exc, tbl, nid, events) ==
    [exc |-> exc, value |-> None, table |-> tbl, nextId |-> nid, log |-> events]

Request(method, json_data) == [kind |-> method, payload |-> json_data]

\* response.raise_for_status() raises HTTPError, else response.json() is returned
_process_response(req, served, accepted, tbl, nid, fault) ==
    IF fault \/ ~accepted
    THEN Raised("HTTPError", tbl, nid, << req @@ [ok |-> FALSE, token |-> None] >>)
    ELSE Returned(served.json, served.table, served.nextId,
                  << req @@ [ok |-> TRUE, token |-> DictGet(served.json, "offset", None)] >>)

_post(json_data, tbl, nid, fault) ==
    _process_response(Request("POST", json_data),
                      ServiceCreate(tbl, nid, json_data.records), TRUE, tbl, nid, fault)

_patch(json_data, tbl, nid, fault) ==
    _process_response(Request("PATCH", json_data),
                      ServiceUpdate(tbl, nid, json_data.records),
                      IdsExist(tbl, Ids(json_data.records)), tbl, nid, fault)

_delete(params, tbl, nid, fault) ==
    _process_response(Request("DELETE", params),
                      ServiceDelete(tbl, nid, params.records),
                      IdsExist(tbl, params.records), tbl, nid, fault)

\* self._post(self.url_table, json_data={"fields": ..., "typecast": ...})
_post_fields(json_data, tbl, nid, fault) ==
    _process_response(Request("POST", json_data),
                      ServiceCreateOne(tbl, nid, json_data.fields), TRUE, tbl, nid, fault)

\* posixpath.join(self.url_table, record_id)
record_url(record_id) == [url_table |-> TRUE, record_id |-> record_id]

\* self._patch(record_url, json_data=...)
_patch_record(url, json_data, tbl, nid, fault) ==
    _process_response(Request("PATCH", [url |-> url] @@ json_data),
                      ServiceUpdateOne(tbl, nid, url.record_id, json_data.fields),
                      url.record_id \in IdSet(tbl), tbl, nid, fault)

\* self._put(record_url, json_data=...)
_put(url, json_data, tbl, nid, fault) ==
    _process_response(Request("PUT", [url |-> url] @@ json_data),
                      ServiceReplaceOne(tbl, nid, url.record_id, json_data.fields),
                      url.record_id \in IdSet(tbl), tbl, nid, fault)

\* self._delete(record_url)
_delete_record(url, tbl, nid, fault) ==
    _process_response(Request("DELETE", [url |-> url]),
                      ServiceDeleteOne(tbl, nid, url.record_id),
                      url.record_id \in IdSet(tbl), tbl, nid, fault)

----------------------------------------------------------------------------
(* The single-call bulk entry points *)

\* insert with the cap compared by >= instead of >
insert_cap_off_by_one(fields_or_records, typecast, tbl, nid, fault) ==
    LET records == [i \in 1..Len(fields_or_records) |-> [fields |-> fields_or_records[i]]]
    IN  IF Len(records) >= MAX_RECORDS_PER_CALL
        THEN Raised("RuntimeError", tbl, nid, <<>>)
        ELSE _post([records |-> records, typecast |-> typecast], tbl, nid, fault)

\* insert(fields_or_records, typecast) with an iterable of fields-mappings
insert(fields_or_records, typecast, tbl, nid, fault) ==
    LET records == [i \in 1..Len(fields_or_records) |-> [fields |-> fields_or_records[i]]]
    IN  IF Len(records) > MAX_RECORDS_PER_CALL
        THEN Raised("RuntimeError", tbl, nid, <<>>)
        ELSE _post([records |-> records, typecast |-> typecast], tbl, nid, fault)

\* insert(fields_or_records, typecast) with a dict: the fields of a single record
insert_fields(fields, typecast, tbl, nid, fault) ==
    _post_fields([fields |-> fields, typecast |-> typecast], tbl, nid, fault)

\* update_records(records, typecast)
update_records(records, typecast, tbl, nid, fault) ==
    IF Len(records) > MAX_RECORDS_PER_CALL
    THEN Raised("RuntimeError", tbl, nid, <<>>)
    ELSE _patch([records |-> records, typecast |-> typecast], tbl, nid, fault)

\* delete(record_id_or_record_ids) with an iterable of record ids
delete(record_ids, tbl, nid, fault) ==
    IF Len(record_ids) > MAX_RECORDS_PER_CALL
    THEN Raised("RuntimeError", tbl, nid, <<>>)
    ELSE _delete([records |-> record_ids], tbl, nid, fault)

\* whether the keyword argument k was given a value that counts as true: None (an
\* argument left out) and empty containers count as false, a record id (a
\* non-empty string) as true
Truthy(args, k) == k \in DOMAIN args /\ (k = "record_id" \/ args[k] # <<>>)

\* update falling through to return None instead of raising
update_without_usage_error(args, typecast, tbl, nid, fault) ==
    IF Truthy(args, "record_id") /\ Truthy(args, "fields")
    THEN _patch_record(record_url(args.record_id),
                       [fields |-> args.fields, typecast |-> typecast], tbl, nid, fault)
    ELSE IF Truthy(args, "records")
         THEN update_records(args.records, FALSE, tbl, nid, fault)
         ELSE Returned(None, tbl, nid, <<>>)

\* update looking at records first and at record_id and fields after
update_records_first(args, typecast, tbl, nid, fault) ==
    IF Truthy(args, "records")
    THEN update_records(args.records, FALSE, tbl, nid, fault)
    ELSE IF Truthy(args, "record_id") /\ Truthy(args, "fields")
         THEN _patch_record(record_url(args.record_id),
                            [fields |-> args.fields, typecast |-> typecast], tbl, nid, fault)
         ELSE Raised("RuntimeError", tbl, nid, <<>>)

\* update(record_id=None, fields=None, typecast=False, records=None); args holds
\* the arguments given other than typecast; update_records is called without
\* typecast
update(args, typecast, tbl, nid, fault) ==
    IF Truthy(args, "record_id") /\ Truthy(args, "fields")
    THEN _patch_record(record_url(args.record_id),
                       [fields |-> args.fields, typecast |-> typecast], tbl, nid, fault)
    ELSE IF Truthy(args, "records")
         THEN update_records(args.records, FALSE, tbl, nid, fault)
         ELSE Raised("RuntimeError", tbl, nid, <<>>)

\* replace(record_id, fields, typecast)
replace(record_id, fields, typecast, tbl, nid, fault) ==
    _put(record_url(record_id), [fields |-> fields, typecast |-> typecast], tbl, nid, fault)

\* chunker with slices one item short: seq[pos:pos + MAX_RECORDS_PER_CALL - 1]
chunker_short_slices(seq) ==
    LET starts == Range(0, Len(seq), MAX_RECORDS_PER_CALL)
    IN  [k \in 1..Len(starts) |->
            Slice(seq, starts[k], starts[k] + MAX_RECORDS_PER_CALL - 1)]

\* chunker(seq)
chunker(seq) ==
    LET starts == Range(0, Len(seq), MAX_RECORDS_PER_CALL)
    IN  [k \in 1..Len(starts) |-> Slice(seq, starts[k], starts[k] + MAX_RECORDS_PER_CALL)]

----------------------------------------------------------------------------
(* The state after construction and the inputs of the public calls *)

NoResult == [kind |-> "none"]
Return(value) == [kind |-> "return", value |-> value]
Raise(exc) == [kind |-> "raise", exc |-> exc]

NoCall == [name |-> "none"]

\* a list of n fields-mappings of pattern k
FieldsList(n, k) == [i \in 1..n |-> PatternFields(i, k)]

\* a list of updates of the first n records of the table, with fields of pattern k
UpdateList(tbl, n, k) == [i \in 1..n |-> [id |-> tbl[i].id, fields |-> PatternFields(i, k)]]

\* the generators a caller holds at a time
GeneratorIds == {1, 2}

\* the frame of a generator: its position, the options of its get_iter call, its
\* locals offset and data, and what it has sent, received and yielded so far
NoFrame ==
    [pc |-> "none", options |-> <<>>, offset |-> None, data |-> None,
     sent |-> <<>>, received |-> <<>>, pages |-> <<>>]

Init ==
    /\ \E m \in 0..MaxTable, k \in TablePatterns : table = InitialTable(m, k)
    /\ nextId = Len(table) + 1
    /\ table0 = table
    /\ op = NoCall
    /\ pc = "idle"
    /\ offset = None
    /\ data = None
    /\ all_records = <<>>
    /\ func = "none"
    /\ chunks = <<>>
    /\ ci = 0
    /\ responses = <<>>
    /\ deleted_records = <<>>
    /\ result = NoResult
    /\ log = <<>>
    /\ generators = [g \in GeneratorIds |-> NoFrame]
    /\ pulls = <<>>

\* API_LIMIT = 1.0 / 5, the seconds slept after a request, in milliseconds
API_LIMIT == 200

\* time.sleep(self.API_LIMIT)
Sleep == [kind |-> "sleep", ms |-> API_LIMIT]

\* the keyword arguments (options...) a listing call is given
Filters == {<<>>, [view |-> "V"], [formula |-> from_name_and_value("Name", "B")]}

OptionSets ==
    Filters \cup {f @@ [page_size |-> SmallPage] : f \in Filters} \cup {[max_records |-> 1]}

\* a public call that is one handler: it runs to its return or raise in one step
Finish(call, outcome) ==
    /\ pc = "idle"
    /\ op' = call
    /\ pc' = "done"
    /\ table' = outcome.table
    /\ nextId' = outcome.nextId
    /\ log' = log \o outcome.log
    /\ result' = IF outcome.exc = "none" THEN Return(outcome.value) ELSE Raise(outcome.exc)
    /\ UNCHANGED <<table0, offset, data, all_records, func, chunks, ci, responses,
                   deleted_records>>

\* airtable.chunker(seq)
CallChunker ==
    /\ pc = "idle"
    /\ \E n \in 0..MaxItems, k \in Patterns :
        LET seq == FieldsList(n, k)
        IN  Finish([name |-> "chunker", records |-> seq],
                   Returned(chunker(seq), table, nextId, <<>>))

\* airtable.insert(records, typecast) with a list
CallInsert ==
    /\ pc = "idle"
    /\ \E n \in 0..MaxCall, k \in Patterns, typecast \in BOOLEAN, fault \in BOOLEAN :
        LET records == FieldsList(n, k)
        IN  Finish([name |-> "insert", records |-> records, typecast |-> typecast],
                   insert(records, typecast, table, nextId, fault))

\* airtable.update_records(records, typecast)
CallUpdateRecords ==
    /\ pc = "idle"
    /\ \E n \in 0..Len(table), k \in Patterns, typecast \in BOOLEAN, fault \in BOOLEAN :
        LET records == UpdateList(table, n, k)
        IN  Finish([name |-> "update_records", records |-> records, typecast |-> typecast],
                   update_records(records, typecast, table, nextId, fault))

\* airtable.delete(record_ids) with a list
CallDelete ==
    /\ pc = "idle"
    /\ \E n \in 0..Len(table), fault \in BOOLEAN :
        LET record_ids == SubSeq(Ids(table), 1, n)
        IN  Finish([name |-> "delete", records |-> record_ids],
                   delete(record_ids, table, nextId, fault))

\* the fields-mappings a caller gives to update or replace one record
FieldsGiven == {<<>>, [Name |-> "B"]}

\* the keyword arguments a call of update is given: any of record_id, fields and
\* records, or none
UpdateArgs(tbl) ==
    LET ids     == {<<>>, [record_id |-> 1]}
        fields  == {<<>>} \cup {[fields |-> f] : f \in FieldsGiven}
        records == {<<>>} \cup {[records |-> UpdateList(tbl, n, 1)] : n \in 0..Min(1, Len(tbl))}
    IN  {i @@ f @@ r : i \in ids, f \in fields, r \in records}

\* airtable.update(record_id, fields, typecast, records)
CallUpdate ==
    /\ pc = "idle"
    /\ \E args \in UpdateArgs(table), typecast \in BOOLEAN, fault \in BOOLEAN :
        Finish([name |-> "update", args |-> args, typecast |-> typecast],
               update(args, typecast, table, nextId, fault))

\* airtable.insert(fields, typecast) with a dict
CallInsertFields ==
    /\ pc = "idle"
    /\ \E fields \in FieldsGiven, typecast \in BOOLEAN, fault \in BOOLEAN :
        Finish([name |-> "insert_fields", fields |-> fields, typecast |-> typecast],
               insert_fields(fields, typecast, table, nextId, fault))

\* airtable.replace(record_id, fields, typecast)
CallReplace ==
    /\ pc = "idle"
    /\ \E fields \in FieldsGiven, typecast \in BOOLEAN, fault \in BOOLEAN :
        Finish([name |-> "replace", record_id |-> 1, fields |-> fields, typecast |-> typecast],
               replace(1, fields, typecast, table, nextId, fault))

----------------------------------------------------------------------------
(* _batch_request(func, iterable, kwargs...) *)

\* func(iterable_chunk, kwargs...)
Apply(f, chunk, typecast, tbl, nid, fault) ==
    CASE f = "insert" -> insert(chunk, typecast, tbl, nid, fault)
      [] f = "update_records" -> update_records(chunk, typecast, tbl, nid, fault)
      [] f = "delete" -> delete(chunk, tbl, nid, fault)

\* _batch_request handing func the whole iterable instead of its chunks
EnterBatchUnchunked(f, iterable) ==
    /\ func' = f
    /\ chunks' = <<iterable>>
    /\ ci' = 0
    /\ responses' = <<>>

\* enters _batch_request: responses = [] and the for loop's iterator over the chunks
EnterBatch(f, iterable) ==
    /\ func' = f
    /\ chunks' = chunker(iterable)
    /\ ci' = 0
    /\ responses' = <<>>

\* the typecast keyword the batch passes on: mirror calls batch_insert(records)
BatchTypecast == IF op.name = "mirror" THEN FALSE ELSE op.typecast

StartBatch(call, f) ==
    /\ pc = "idle"
    /\ op' = call
    /\ pc' = "batch_loop"
    /\ EnterBatch(f, call.records)
    /\ UNCHANGED <<table, nextId, table0, offset, data, all_records, deleted_records,
                   result, log>>

\* airtable.batch_insert(records, typecast)
batch_insert ==
    /\ pc = "idle"
    /\ \E n \in 0..MaxItems, k \in Patterns, typecast \in BOOLEAN :
        StartBatch([name |-> "batch_insert", records |-> FieldsList(n, k),
                    typecast |-> typecast], "insert")

\* airtable.batch_update(records, typecast)
batch_update ==
    /\ pc = "idle"
    /\ \E n \in 0..Len(table), k \in Patterns, typecast \in BOOLEAN :
        StartBatch([name |-> "batch_update", records |-> UpdateList(table, n, k),
                    typecast |-> typecast], "update_records")

\* airtable.batch_delete(record_ids)
batch_delete ==
    /\ pc = "idle"
    /\ \E n \in 0..Len(table) :
        StartBatch([name |-> "batch_delete", records |-> SubSeq(Ids(table), 1, n),
                    typecast |-> FALSE], "delete")

\* _batch_request swallowing the error of a group and going on to the next
_batch_request_call_swallowing ==
    /\ pc = "batch_loop"
    /\ ci < Len(chunks)
    /\ \E fault \in BOOLEAN :
        LET outcome == Apply(func, chunks[ci + 1], BatchTypecast, table, nextId, fault)
        IN  /\ table' = outcome.table
            /\ nextId' = outcome.nextId
            /\ log' = log \o outcome.log
            /\ ci' = ci + 1
            /\ responses' = IF outcome.exc = "none"
                            THEN ExtendWithDict(responses, outcome.value) ELSE responses
            /\ pc' = "batch_sleep"
    /\ UNCHANGED <<table0, op, offset, data, all_records, func, chunks, deleted_records,
                   result>>

\* _batch_request undoing the groups already applied when a group fails
_batch_request_call_undoing ==
    /\ pc = "batch_loop"
    /\ ci < Len(chunks)
    /\ \E fault \in BOOLEAN :
        LET outcome == Apply(func, chunks[ci + 1], BatchTypecast, table, nextId, fault)
        IN  /\ nextId' = outcome.nextId
            /\ log' = log \o outcome.log
            /\ ci' = ci + 1
            /\ IF outcome.exc = "none"
               THEN /\ table' = outcome.table
                    /\ responses' = ExtendWithDict(responses, outcome.value)
                    /\ pc' = "batch_sleep"
                    /\ UNCHANGED result
               ELSE /\ table' = table0
                    /\ result' = Raise(outcome.exc)
                    /\ pc' = "done"
                    /\ UNCHANGED responses
    /\ UNCHANGED <<table0, op, offset, data, all_records, func, chunks, deleted_records>>

\* the loop body up to the sleep: responses.extend(func(iterable_chunk, kwargs...))
_batch_request_call ==
    /\ pc = "batch_loop"
    /\ ci < Len(chunks)
    /\ \E fault \in BOOLEAN :
        LET outcome == Apply(func, chunks[ci + 1], BatchTypecast, table, nextId, fault)
        IN  /\ table' = outcome.table
            /\ nextId' = outcome.nextId
            /\ log' = log \o outcome.log
            /\ ci' = ci + 1
            /\ IF outcome.exc = "none"
               THEN /\ responses' = ExtendWithDict(responses, outcome.value)
                    /\ pc' = "batch_sleep"
                    /\ UNCHANGED result
               ELSE /\ result' = Raise(outcome.exc)
                    /\ pc' = "done"
                    /\ UNCHANGED responses
    /\ UNCHANGED <<table0, op, offset, data, all_records, func, chunks, deleted_records>>

\* _batch_request going on to the next group without its sleep
_batch_request_no_sleep ==
    /\ pc = "batch_sleep"
    /\ pc' = "batch_loop"
    /\ UNCHANGED <<table, nextId, table0, op, offset, data, all_records, func, chunks,
                   ci, responses, deleted_records, result, log>>

\* time.sleep(self.API_LIMIT)
_batch_request_sleep ==
    /\ pc = "batch_sleep"
    /\ log' = Append(log, Sleep)
    /\ pc' = "batch_loop"
    /\ UNCHANGED <<table, nextId, table0, op, offset, data, all_records, func, chunks,
                   ci, responses, deleted_records, result>>

\* return responses, to the caller of a batch_* public call
_batch_request_return ==
    /\ pc = "batch_loop"
    /\ ci = Len(chunks)
    /\ op.name # "mirror"
    /\ result' = Return(responses)
    /\ pc' = "done"
    /\ UNCHANGED <<table, nextId, table0, op, offset, data, all_records, func, chunks,
                   ci, responses, deleted_records, log>>

----------------------------------------------------------------------------
(* get_iter(options...), pulled by get_all(options...) *)

\* self._get(self.url_table, offset=offset, options...)
_get(params, tbl, nid, fault, emptyToken) ==
    _process_response(Request("GET", params),
                      [table |-> tbl, nextId |-> nid,
                       json |-> ServiceList(tbl, params.options, params.offset, emptyToken)],
                      TRUE, tbl, nid, fault)

StartListing(call) ==
    /\ pc = "idle"
    /\ op' = call
    /\ pc' = "get_iter_request"
    /\ offset' = None
    /\ all_records' = <<>>
    /\ UNCHANGED <<table, nextId, table0, data, func, chunks, ci, responses,
                   deleted_records, result, log>>

\* airtable.get_all(options...)
get_all ==
    /\ pc = "idle"
    /\ \E options \in OptionSets : StartListing([name |-> "get_all", options |-> options])

\* get_iter ending the page sequence quietly when a listing request fails, so that
\* the pages fetched so far are returned
get_iter_request_ending_quietly ==
    /\ pc = "get_iter_request"
    /\ \E fault \in BOOLEAN, emptyToken \in BOOLEAN :
        LET outcome == _get([offset |-> offset, options |-> op.options],
                            table, nextId, fault, emptyToken)
        IN  /\ log' = log \o outcome.log
            /\ IF outcome.exc = "none"
               THEN /\ data' = outcome.value
                    /\ pc' = "get_iter_sleep"
                    /\ UNCHANGED result
               ELSE /\ result' = Return(all_records)
                    /\ pc' = "done"
                    /\ UNCHANGED data
    /\ UNCHANGED <<table, nextId, table0, op, offset, all_records, func, chunks, ci,
                   responses, deleted_records>>

\* data = self._get(...); records = data.get("records", [])
get_iter_request ==
    /\ pc = "get_iter_request"
    /\ \E fault \in BOOLEAN, emptyToken \in BOOLEAN :
        LET outcome == _get([offset |-> offset, options |-> op.options],
                            table, nextId, fault, emptyToken)
        IN  /\ log' = log \o outcome.log
            /\ IF outcome.exc = "none"
               THEN /\ data' = outcome.value
                    /\ pc' = "get_iter_sleep"
                    /\ UNCHANGED result
               ELSE /\ result' = Raise(outcome.exc)
                    /\ pc' = "done"
                    /\ UNCHANGED data
    /\ UNCHANGED <<table, nextId, table0, op, offset, all_records, func, chunks, ci,
                   responses, deleted_records>>

\* get_iter without its sleep: the page is yielded right after the response
get_iter_no_sleep ==
    /\ pc = "get_iter_sleep"
    /\ pc' = "get_iter_yield"
    /\ UNCHANGED <<table, nextId, table0, op, offset, data, all_records, func, chunks,
                   ci, responses, deleted_records, result, log>>

\* time.sleep(self.API_LIMIT)
get_iter_sleep ==
    /\ pc = "get_iter_sleep"
    /\ log' = Append(log, Sleep)
    /\ pc' = "get_iter_yield"
    /\ UNCHANGED <<table, nextId, table0, op, offset, data, all_records, func, chunks,
                   ci, responses, deleted_records, result>>

\* yield records, and the body of get_all's for loop: all_records.extend(records)
get_iter_yield ==
    /\ pc = "get_iter_yield"
    /\ LET records == DictGet(data, "records", <<>>)
       IN  /\ log' = Append(log, [kind |-> "yield", payload |-> records])
           /\ all_records' = ExtendWithList(all_records, records)
    /\ pc' = "get_iter_resume"
    /\ UNCHANGED <<table, nextId, table0, op, offset, data, func, chunks, ci,
                   responses, deleted_records, result>>

\* get_iter going round its loop without taking the token of the response
get_iter_continue_stale_offset ==
    /\ pc = "get_iter_resume"
    /\ ~Falsy(DictGet(data, "offset", None))
    /\ pc' = "get_iter_request"
    /\ UNCHANGED <<table, nextId, table0, op, offset, data, all_records, func, chunks, ci,
                   responses, deleted_records, result, log>>

\* offset = data.get("offset"); if not offset: break, else the next turn of the loop
get_iter_continue ==
    /\ pc = "get_iter_resume"
    /\ ~Falsy(DictGet(data, "offset", None))
    /\ offset' = DictGet(data, "offset", None)
    /\ pc' = "get_iter_request"
    /\ UNCHANGED <<table, nextId, table0, op, data, all_records, func, chunks, ci,
                   responses, deleted_records, result, log>>

\* ... break: the iterator is exhausted and get_all returns all_records
get_all_return ==
    /\ pc = "get_iter_resume"
    /\ Falsy(DictGet(data, "offset", None))
    /\ op.name = "get_all"
    /\ offset' = DictGet(data, "offset", None)
    /\ result' = Return(all_records)
    /\ pc' = "done"
    /\ UNCHANGED <<table, nextId, table0, op, data, all_records, func, chunks, ci,
                   responses, deleted_records, log>>

----------------------------------------------------------------------------
(* match(field_name, field_value, options...) *)

\* the values a caller looks a record up by
FieldValues == {"A", "B"}

\* match keeping a formula the caller gave: options.setdefault("formula", ...)
match_options_keeping_formula(field_name, field_value, options) ==
    options @@ [formula |-> from_name_and_value(field_name, field_value)]

\* options["formula"] = from_name_and_value(field_name, field_value)
match_options(field_name, field_value, options) ==
    [formula |-> from_name_and_value(field_name, field_value)] @@ options

\* a call of match, on its own or from a *_by_field call: given holds the options
\* of the caller, options those the listing runs under
MatchCall(name, field_name, field_value, options) ==
    [name |-> name, field_name |-> field_name, field_value |-> field_value,
     given |-> options, options |-> match_options(field_name, field_value, options)]

\* airtable.match(field_name, field_value, options...): enters self.get_all(options...)
match ==
    /\ pc = "idle"
    /\ \E field_value \in FieldValues, options \in OptionSets :
        StartListing(MatchCall("match", "Name", field_value, options))

\* for record in self.get_all(options...): return record; else: return {}
match_result(records) == IF records = <<>> THEN <<>> ELSE records[1]

\* get_all has returned to match, which returns its first record or {}
match_return ==
    /\ pc = "get_iter_resume"
    /\ Falsy(DictGet(data, "offset", None))
    /\ op.name = "match"
    /\ offset' = DictGet(data, "offset", None)
    /\ result' = Return(match_result(all_records))
    /\ pc' = "done"
    /\ UNCHANGED <<table, nextId, table0, op, data, all_records, func, chunks, ci,
                   responses, deleted_records, log>>

\* the keyword arguments (options...) a search or a *_by_field call is given
ByFieldOptions == {<<>>, [page_size |-> SmallPage], [formula |-> from_name_and_value("Name", "B")]}

\* airtable.search(field_name, field_value, options...): the formula is set as
\* in match, then enters self.get_all(options...)
search ==
    /\ pc = "idle"
    /\ \E field_value \in FieldValues, options \in ByFieldOptions :
        StartListing(MatchCall("search", "Name", field_value, options))

\* records = self.get_all(options...); return records
search_return ==
    /\ pc = "get_iter_resume"
    /\ Falsy(DictGet(data, "offset", None))
    /\ op.name = "search"
    /\ offset' = DictGet(data, "offset", None)
    /\ result' = Return(all_records)
    /\ pc' = "done"
    /\ UNCHANGED <<table, nextId, table0, op, data, all_records, func, chunks, ci,
                   responses, deleted_records, log>>

----------------------------------------------------------------------------
(* update_by_field, replace_by_field and delete_by_field: match, then one write *)

\* match has returned to a *_by_field call, which runs to its return or raise
Complete(outcome) ==
    /\ pc = "get_iter_resume"
    /\ Falsy(DictGet(data, "offset", None))
    /\ offset' = DictGet(data, "offset", None)
    /\ table' = outcome.table
    /\ nextId' = outcome.nextId
    /\ log' = log \o outcome.log
    /\ result' = IF outcome.exc = "none" THEN Return(outcome.value) ELSE Raise(outcome.exc)
    /\ pc' = "done"
    /\ UNCHANGED <<table0, op, data, all_records, func, chunks, ci, responses,
                   deleted_records>>

\* airtable.update_by_field(field_name, field_value, fields, typecast, options...):
\* enters self.match(field_name, field_value, options...)
update_by_field ==
    /\ pc = "idle"
    /\ \E field_value \in FieldValues, fields \in FieldsGiven, typecast \in BOOLEAN,
          options \in ByFieldOptions :
        StartListing(MatchCall("update_by_field", "Name", field_value, options)
                        @@ [fields |-> fields, typecast |-> typecast])

\* return {} if not record else self.update(record["id"], fields, typecast)
update_by_field_write ==
    /\ op.name = "update_by_field"
    /\ \E fault \in BOOLEAN :
        LET record == match_result(all_records)
        IN  Complete(IF Falsy(record) THEN Returned(<<>>, table, nextId, <<>>)
                     ELSE update([record_id |-> record.id, fields |-> op.fields],
                                 op.typecast, table, nextId, fault))

\* airtable.replace_by_field(field_name, field_value, fields, typecast, options...)
replace_by_field ==
    /\ pc = "idle"
    /\ \E field_value \in FieldValues, fields \in FieldsGiven, typecast \in BOOLEAN,
          options \in ByFieldOptions :
        StartListing(MatchCall("replace_by_field", "Name", field_value, options)
                        @@ [fields |-> fields, typecast |-> typecast])

\* return {} if not record else self.replace(record["id"], fields, typecast)
replace_by_field_write ==
    /\ op.name = "replace_by_field"
    /\ \E fault \in BOOLEAN :
        LET record == match_result(all_records)
        IN  Complete(IF Falsy(record) THEN Returned(<<>>, table, nextId, <<>>)
                     ELSE replace(record.id, op.fields, op.typecast, table, nextId, fault))

\* airtable.delete_by_field(field_name, field_value, options...)
delete_by_field ==
    /\ pc = "idle"
    /\ \E field_value \in FieldValues, options \in ByFieldOptions :
        StartListing(MatchCall("delete_by_field", "Name", field_value, options))

\* delete_by_field guarding the lookup as update_by_field does
delete_by_field_write_guarded ==
    /\ op.name = "delete_by_field"
    /\ \E fault \in BOOLEAN :
        LET record == match_result(all_records)
        IN  Complete(IF Falsy(record) THEN Returned(<<>>, table, nextId, <<>>)
                     ELSE _delete_record(record_url(record.id), table, nextId, fault))

\* record_url = self.record_url(record["id"]): a KeyError when match returned {};
\* return self._delete(record_url)
delete_by_field_write ==
    /\ op.name = "delete_by_field"
    /\ \E fault \in BOOLEAN :
        LET record == match_result(all_records)
        IN  Complete(IF "id" \notin DOMAIN record THEN Raised("KeyError", table, nextId, <<>>)
                     ELSE _delete_record(record_url(record.id), table, nextId, fault))

----------------------------------------------------------------------------
(* mirror(records, options...) *)

\* airtable.mirror(records, options...): enters self.get_all(options...)
mirror ==
    /\ pc = "idle"
    /\ \E n \in 0..MaxMirror, k \in Patterns, options \in OptionSets :
        StartListing([name |-> "mirror", records |-> FieldsList(n, k),
                      options |-> options])

\* mirror deleting only the ids of the last page fetched
mirror_delete_last_page ==
    /\ pc = "get_iter_resume"
    /\ Falsy(DictGet(data, "offset", None))
    /\ op.name = "mirror"
    /\ offset' = DictGet(data, "offset", None)
    /\ EnterBatch("delete", Ids(DictGet(data, "records", <<>>)))
    /\ pc' = "batch_loop"
    /\ UNCHANGED <<table, nextId, table0, op, data, all_records, deleted_records,
                   result, log>>

\* mirror going on to batch_insert right after its listing
mirror_insert_first ==
    /\ pc = "get_iter_resume"
    /\ Falsy(DictGet(data, "offset", None))
    /\ op.name = "mirror"
    /\ offset' = DictGet(data, "offset", None)
    /\ EnterBatch("insert", op.records)
    /\ pc' = "batch_loop"
    /\ UNCHANGED <<table, nextId, table0, op, data, all_records, deleted_records,
                   result, log>>

\* mirror deleting every record of the table, whatever its listing returned
mirror_delete_whole_table ==
    /\ pc = "get_iter_resume"
    /\ Falsy(DictGet(data, "offset", None))
    /\ op.name = "mirror"
    /\ offset' = DictGet(data, "offset", None)
    /\ EnterBatch("delete", Ids(table))
    /\ pc' = "batch_loop"
    /\ UNCHANGED <<table, nextId, table0, op, data, all_records, deleted_records,
                   result, log>>

\* all_record_ids = [r["id"] for r in self.get_all(options...)], then enters
\* self.batch_delete(all_record_ids)
mirror_delete ==
    /\ pc = "get_iter_resume"
    /\ Falsy(DictGet(data, "offset", None))
    /\ op.name = "mirror"
    /\ offset' = DictGet(data, "offset", None)
    /\ EnterBatch("delete", Ids(all_records))
    /\ pc' = "batch_loop"
    /\ UNCHANGED <<table, nextId, table0, op, data, all_records, deleted_records,
                   result, log>>

\* mirror going on to batch_insert without waiting for batch_delete to return
mirror_insert_early ==
    /\ pc = "batch_loop"
    /\ op.name = "mirror"
    /\ func = "delete"
    /\ deleted_records' = responses
    /\ EnterBatch("insert", op.records)
    /\ UNCHANGED <<table, nextId, table0, op, pc, offset, data, all_records, result, log>>

\* deleted_records = self.batch_delete(...) has returned; enters
\* self.batch_insert(records)
mirror_insert ==
    /\ pc = "batch_loop"
    /\ ci = Len(chunks)
    /\ op.name = "mirror"
    /\ func = "delete"
    /\ deleted_records' = responses
    /\ EnterBatch("insert", op.records)
    /\ UNCHANGED <<table, nextId, table0, op, pc, offset, data, all_records, result, log>>

\* new_records = self.batch_insert(records) has returned;
\* return (new_records, deleted_records)
mirror_return ==
    /\ pc = "batch_loop"
    /\ ci = Len(chunks)
    /\ op.name = "mirror"
    /\ func = "insert"
    /\ result' = Return(<<responses, deleted_records>>)
    /\ pc' = "done"
    /\ UNCHANGED <<table, nextId, table0, op, offset, data, all_records, func, chunks,
                   ci, responses, deleted_records, log>>

\* a step of the public call in progress; the generators are left alone
Next ==
    \/ CallChunker /\ UNCHANGED genvars
    \/ CallInsert /\ UNCHANGED genvars
    \/ CallUpdateRecords /\ UNCHANGED genvars
    \/ CallDelete /\ UNCHANGED genvars
    \/ CallUpdate /\ UNCHANGED genvars
    \/ CallInsertFields /\ UNCHANGED genvars
    \/ CallReplace /\ UNCHANGED genvars
    \/ batch_insert /\ UNCHANGED genvars
    \/ batch_update /\ UNCHANGED genvars
    \/ batch_delete /\ UNCHANGED genvars
    \/ _batch_request_call /\ UNCHANGED genvars
    \/ _batch_request_sleep /\ UNCHANGED genvars
    \/ _batch_request_return /\ UNCHANGED genvars
    \/ get_all /\ UNCHANGED genvars
    \/ get_iter_request /\ UNCHANGED genvars
    \/ get_iter_sleep /\ UNCHANGED genvars
    \/ get_iter_yield /\ UNCHANGED genvars
    \/ get_iter_continue /\ UNCHANGED genvars
    \/ get_all_return /\ UNCHANGED genvars
    \/ match /\ UNCHANGED genvars
    \/ match_return /\ UNCHANGED genvars
    \/ search /\ UNCHANGED genvars
    \/ search_return /\ UNCHANGED genvars
    \/ update_by_field /\ UNCHANGED genvars
    \/ update_by_field_write /\ UNCHANGED genvars
    \/ replace_by_field /\ UNCHANGED genvars
    \/ replace_by_field_write /\ UNCHANGED genvars
    \/ delete_by_field /\ UNCHANGED genvars
    \/ delete_by_field_write /\ UNCHANGED genvars
    \/ mirror /\ UNCHANGED genvars
    \/ mirror_delete /\ UNCHANGED genvars
    \/ mirror_insert /\ UNCHANGED genvars
    \/ mirror_return /\ UNCHANGED genvars

Spec == Init /\ [][Next]_vars

----------------------------------------------------------------------------
(* Generators: get_iter(options...) called several times on one client, the *)
(* caller pulling from the generators in any order.  A generator's locals   *)
(* live in its own frame; the client holds nothing of an iteration.         *)

\* the keyword arguments (options...) the get_iter calls are given
GeneratorOptions == {[page_size |-> SmallPage], [page_size |-> SmallPage + 1, view |-> "V"]}

\* the steps of a generator leave the public call and the service alone
GeneratorStep ==
    UNCHANGED <<table, nextId, table0, op, pc, offset, data, all_records, func, chunks, ci,
                responses, deleted_records, result, log>>

\* airtable.get_iter(options...) and the first pull: offset = None
gen_call(g) ==
    /\ generators[g].pc = "none"
    /\ \E options \in GeneratorOptions :
        generators' = [generators EXCEPT ![g] =
                          [NoFrame EXCEPT !.pc = "request", !.options = options]]
    /\ UNCHANGED pulls
    /\ GeneratorStep

\* data = self._get(...); records = data.get("records", [])
gen_request(g) ==
    /\ generators[g].pc = "request"
    /\ \E fault \in BOOLEAN, emptyToken \in BOOLEAN :
        LET frame   == generators[g]
            outcome == _get([offset |-> frame.offset, options |-> frame.options],
                            table, nextId, fault, emptyToken)
        IN  generators' = [generators EXCEPT ![g] =
                IF outcome.exc = "none"
                THEN [frame EXCEPT !.data = outcome.value, !.pc = "sleep",
                                   !.sent = Append(@, frame.offset),
                                   !.received = Append(@, outcome.log[1].token)]
                ELSE [frame EXCEPT !.pc = "raised", !.sent = Append(@, frame.offset)]]
    /\ pulls' = Append(pulls, g)
    /\ GeneratorStep

\* time.sleep(self.API_LIMIT)
gen_sleep(g) ==
    /\ generators[g].pc = "sleep"
    /\ generators' = [generators EXCEPT ![g].pc = "yield"]
    /\ UNCHANGED pulls
    /\ GeneratorStep

\* yield records
gen_yield(g) ==
    /\ generators[g].pc = "yield"
    /\ generators' = [generators EXCEPT ![g] =
            [@ EXCEPT !.pages = Append(@, DictGet(generators[g].data, "records", <<>>)),
                      !.pc = "resume"]]
    /\ UNCHANGED pulls
    /\ GeneratorStep

\* get_iter keeping its offset on the client, where every generator reads it
gen_resume_shared_offset(g) ==
    /\ generators[g].pc = "resume"
    /\ LET token == DictGet(generators[g].data, "offset", None)
       IN  generators' = [h \in GeneratorIds |->
               IF h = g
               THEN [generators[h] EXCEPT !.offset = token,
                        !.pc = IF Falsy(token) THEN "exhausted" ELSE "request"]
               ELSE [generators[h] EXCEPT !.offset = token]]
    /\ UNCHANGED pulls
    /\ GeneratorStep

\* the next pull: offset = data.get("offset"); if not offset: break
gen_resume(g) ==
    /\ generators[g].pc = "resume"
    /\ LET token == DictGet(generators[g].data, "offset", None)
       IN  generators' = [generators EXCEPT ![g] =
               [@ EXCEPT !.offset = token,
                         !.pc = IF Falsy(token) THEN "exhausted" ELSE "request"]]
    /\ UNCHANGED pulls
    /\ GeneratorStep

NextGenerators ==
    \E g \in GeneratorIds :
        \/ gen_call(g)
        \/ gen_request(g)
        \/ gen_sleep(g)
        \/ gen_yield(g)
        \/ gen_resume(g)

SpecGenerators == Init /\ [][NextGenerators]_vars

----------------------------------------------------------------------------
(* What the properties below read off the state *)

Methods == {"GET", "POST", "PATCH", "PUT", "DELETE"}

\* the Transport requests issued so far, in order
Requests == SelectSeq(log, LAMBDA e : e.kind \in Methods)

\* the items a bulk write request carries, as the caller gave them
SentItems(e) ==
    IF e.kind = "POST" THEN [i \in 1..Len(e.payload.records) |-> e.payload.records[i].fields]
    ELSE e.payload.records

BatchCalls == {"batch_insert", "batch_update", "batch_delete"}
SingleCalls == {"insert", "update_records", "delete"}

Returned_ == pc = "done" /\ result.kind = "return"

\* the k-th consecutive slice of MAX_RECORDS_PER_CALL items of seq
Group(seq, k) ==
    SubSeq(seq, (k - 1) * MAX_RECORDS_PER_CALL + 1, Min(k * MAX_RECORDS_PER_CALL, Len(seq)))

\* ceil(n / MAX_RECORDS_PER_CALL)
GroupCount(n) == (n + MAX_RECORDS_PER_CALL - 1) \div MAX_RECORDS_PER_CALL

----------------------------------------------------------------------------
\* C1: chunker(S) yields chunks that concatenate to S, each but the last of
\* length MAX_RECORDS_PER_CALL, the last of 1..MAX_RECORDS_PER_CALL items, and no
\* chunk at all for an empty S.
C1_ChunkerContract ==
    (pc = "done" /\ op.name = "chunker") =>
        LET cs == result.value
        IN  /\ Flatten(cs) = op.records
            /\ \A k \in 1..Len(cs) - 1 : Len(cs[k]) = MAX_RECORDS_PER_CALL
            /\ cs # <<>> => Len(cs[Len(cs)]) \in 1..MAX_RECORDS_PER_CALL
            /\ op.records = <<>> => cs = <<>>

\* a sequence of more than two full chunks came back as three chunks, the last short
C1_Witness ==
    /\ pc = "done" /\ op.name = "chunker"
    /\ Len(op.records) > 2 * MAX_RECORDS_PER_CALL
    /\ Len(result.value) = 3
    /\ Len(result.value[3]) < MAX_RECORDS_PER_CALL

\* C2: a batch call on n items issues exactly ceil(n / MAX_RECORDS_PER_CALL)
\* requests, in input order, the k-th carrying the k-th consecutive slice of the
\* input; for n = 0 it issues none.
C2_BatchGroupedCalls ==
    op.name \in BatchCalls =>
        /\ \A k \in 1..Len(Requests) : SentItems(Requests[k]) = Group(op.records, k)
        /\ Len(Requests) <= GroupCount(Len(op.records))
        /\ Returned_ => Len(Requests) = GroupCount(Len(op.records))
        /\ (Returned_ /\ op.records = <<>>) => log = <<>>

\* batch_insert returned after three grouped calls of 10, 10 and fewer items
C2_Witness ==
    /\ Returned_ /\ op.name = "batch_insert"
    /\ Len(Requests) = 3
    /\ Len(SentItems(Requests[1])) = MAX_RECORDS_PER_CALL
    /\ Len(SentItems(Requests[2])) = MAX_RECORDS_PER_CALL
    /\ Len(SentItems(Requests[3])) = Len(op.records) - 2 * MAX_RECORDS_PER_CALL

\* the per-record results the service produced for the items of a batch call, one
\* per input item in input order
ServiceResults ==
    CASE op.name = "batch_insert" ->
            [i \in 1..Len(op.records) |-> [id |-> Len(table0) + i, fields |-> op.records[i]]]
      [] op.name = "batch_update" -> op.records
      [] op.name = "batch_delete" ->
            [i \in 1..Len(op.records) |-> [deleted |-> TRUE, id |-> op.records[i]]]

\* C3: when every grouped call succeeds, a batch call returns exactly one
\* per-record result for each input item, in input order.
C3_BatchResultsPerRecord ==
    (Returned_ /\ op.name \in BatchCalls) =>
        /\ Len(result.value) = Len(op.records)
        /\ result.value = ServiceResults

\* C4: a single-call bulk entry point given more than MAX_RECORDS_PER_CALL items
\* raises before any request is issued and leaves the table alone; given that many
\* or fewer it issues exactly one request.
C4_SingleCallCap ==
    (pc = "done" /\ op.name \in SingleCalls) =>
        IF Len(op.records) > MAX_RECORDS_PER_CALL
        THEN result = Raise("RuntimeError") /\ log = <<>> /\ table = table0
        ELSE Len(log) = 1 /\ Len(Requests) = 1 /\ SentItems(Requests[1]) = op.records

\* insert was given one item too many and raised
C4_Witness ==
    /\ pc = "done" /\ op.name = "insert"
    /\ Len(op.records) = MAX_RECORDS_PER_CALL + 1
    /\ result = Raise("RuntimeError")


----------------------------------------------------------------------------
(* The listing requests of the call in progress *)

ListingCalls == {"get_all", "mirror"}

\* the positions of the listing requests in the log
GetAt == {i \in 1..Len(log) : log[i].kind = "GET"}

Gets == SelectSeq(log, LAMBDA e : e.kind = "GET")

\* the response of a listing request carries no continuation token, or an empty one
LastPage(e) == e.ok /\ (e.token = None \/ e.token = EmptyStr)

\* C5: get_all stops right after the first listing response whose continuation
\* token is absent or empty, issuing no further listing request, and goes on to
\* the next listing request after every response that carries a token: it returns
\* exactly when such a response has arrived.
C5_StopsAtFirstTokenlessPage ==
    op.name = "get_all" =>
        /\ \A k \in 1..Len(Gets) - 1 : Gets[k].ok /\ ~LastPage(Gets[k])
        /\ Returned_ => (Gets # <<>> /\ LastPage(Gets[Len(Gets)]))
        /\ (pc = "get_iter_resume" /\ LastPage(Gets[Len(Gets)]))
              => (ENABLED get_all_return /\ ~ENABLED get_iter_continue)
        /\ (pc = "get_iter_resume" /\ ~LastPage(Gets[Len(Gets)]))
              => (ENABLED get_iter_continue /\ ~ENABLED get_all_return)
        /\ (pc = "done" /\ Gets # <<>>)
              => (LastPage(Gets[Len(Gets)]) \/ ~Gets[Len(Gets)].ok)

\* get_all returned after three listing requests, the last answered with an empty
\* token
C5_Witness ==
    /\ Returned_ /\ op.name = "get_all"
    /\ Len(Gets) = 3
    /\ Gets[3].token = EmptyStr

\* C6: with no other writer, get_all returns the records the service holds under
\* the options, in service order, each exactly once: the pages concatenated in the
\* order returned.
C6_GetAllReturnsEveryRecord ==
    (Returned_ /\ op.name = "get_all") =>
        /\ result.value = Visible(table, op.options)
        /\ \A i, j \in 1..Len(result.value) :
              result.value[i].id = result.value[j].id => i = j

\* get_all returned nine or more records fetched in three pages
C6_Witness ==
    /\ Returned_ /\ op.name = "get_all"
    /\ Len(Gets) = 3
    /\ Len(result.value) > 2 * SmallPage

\* C7: get_iter sleeps exactly once per page fetched, after the listing request
\* has returned and before the page is yielded, so exactly one sleep lies between
\* two successive listing requests.
C7_OneSleepPerPage ==
    op.name \in ListingCalls =>
        /\ \A i \in GetAt :
              log[i].ok =>
                 /\ i + 1 <= Len(log) => log[i + 1].kind = "sleep"
                 /\ i + 2 <= Len(log) => log[i + 2].kind = "yield"
        /\ \A i \in 1..Len(log) :
              log[i].kind = "yield" =>
                 /\ i > 2
                 /\ log[i - 1].kind = "sleep"
                 /\ log[i - 2].kind = "GET" /\ log[i - 2].ok
        /\ \A i, j \in GetAt :
              (i < j /\ \A m \in GetAt : ~(i < m /\ m < j)) =>
                 Cardinality({m \in i..j : log[m].kind = "sleep"}) = 1

\* three pages were fetched and yielded
C7_Witness ==
    /\ op.name \in ListingCalls
    /\ Len(Gets) = 3
    /\ Cardinality({i \in 1..Len(log) : log[i].kind = "yield"}) = 3

\* the table after the first n items of a batch call's input have been applied
AfterItems(n) ==
    LET items == SubSeq(op.records, 1, n)
    IN  CASE op.name = "batch_insert" ->
                ServiceCreate(table0, Len(table0) + 1,
                              [i \in 1..n |-> [fields |-> items[i]]]).table
          [] op.name = "batch_update" -> ServiceUpdate(table0, Len(table0) + 1, items).table
          [] op.name = "batch_delete" -> ServiceDelete(table0, Len(table0) + 1, items).table

\* C8: when the request of group k of a batch call fails, the call raises that
\* error, group k was requested once and no later group at all, and the table
\* holds the effects of groups 1..k-1.
C8_BatchAbortsAtFirstFailure ==
    (op.name \in BatchCalls /\ Requests # <<>> /\ ~Requests[Len(Requests)].ok) =>
        LET k == Len(Requests)
        IN  /\ pc = "done" /\ result = Raise("HTTPError")
            /\ ~ENABLED Next
            /\ \A j \in 1..k - 1 : Requests[j].ok
            /\ \A j \in 1..k : SentItems(Requests[j]) = Group(op.records, j)
            /\ table = AfterItems((k - 1) * MAX_RECORDS_PER_CALL)

\* batch_insert failed at its third group: the twenty records of the first two
\* groups are in the table
C8_Witness ==
    /\ op.name = "batch_insert" /\ result = Raise("HTTPError")
    /\ Len(Requests) = 3
    /\ Len(table) = Len(table0) + 2 * MAX_RECORDS_PER_CALL

----------------------------------------------------------------------------
(* mirror: the table before and after *)

\* the records visible under mirror's options when it was called
Listed0 == Visible(table0, op.options)

\* the other records of the table at that time
Unlisted0 == SelectSeq(table0, LAMBDA r : r.id \notin IdSet(Listed0))

\* the records the service creates for mirror's input, one per item in input order
Created ==
    [i \in 1..Len(op.records) |-> [id |-> Len(table0) + i, fields |-> op.records[i]]]

\* none of the records visible before exists any more, and each input record has
\* been inserted exactly once
MirrorReplaced ==
    /\ \A i \in 1..Len(Listed0) : Listed0[i].id \notin IdSet(table)
    /\ table = Unlisted0 \o Created

C10_MirrorReturnsRecordsAndDeletions ==
    (Returned_ /\ op.name = "mirror") =>
        /\ result.value[1] = Created
        /\ result.value[2] =
              [i \in 1..Len(Listed0) |-> [deleted |-> TRUE, id |-> Listed0[i].id]]

----------------------------------------------------------------------------
(* mirror: the state between its deletions and its insertions *)

\* batch_delete has returned and the first insert request has not been issued
MirrorGap == op.name = "mirror" /\ pc = "batch_loop" /\ func = "insert" /\ ci = 0

\* what a concurrent reader listing the table under mirror's options is served in
\* the current state
ReaderView == Visible(table, op.options)

\* C11: mirror is not atomic: once its last delete call has returned and before
\* its first insert call, the table holds none of the records that were visible
\* under the options and none of the new ones, so a concurrent reader listing
\* under options without max_records is served zero records.
C11_MirrorGapShowsNothing ==
    MirrorGap =>
        /\ \A i \in 1..Len(Listed0) : Listed0[i].id \notin IdSet(table)
        /\ table = Unlisted0
        /\ "max_records" \notin DOMAIN op.options => ReaderView = <<>>

\* records were visible, records were given, the last delete call has completed
\* and a reader is served nothing
C11_Witness ==
    /\ MirrorGap
    /\ Listed0 # <<>> /\ op.records # <<>>
    /\ log[Len(log) - 1].kind = "DELETE" /\ log[Len(log) - 1].ok
    /\ ReaderView = <<>>

----------------------------------------------------------------------------
(* match and the calls built on it *)

\* the options the caller gave with the formula replaced by field equals value
WantedOptions ==
    [k \in DOMAIN op.given \cup {"formula"} |->
        IF k = "formula" THEN [field |-> op.field_name, equals |-> op.field_value]
        ELSE op.given[k]]

\* the records the service lists under those options
Matching == Visible(table0, WantedOptions)

\* C12: match lists under the caller's options with any formula among them
\* replaced by field equals value, and returns the first record the service lists,
\* in listing order; it returns {} exactly when the service lists none, and raises
\* only when a listing request failed.
C12_MatchReturnsFirstListed ==
    op.name = "match" =>
        /\ \A k \in 1..Len(Gets) : Gets[k].payload.options = WantedOptions
        /\ Returned_ =>
              /\ result.value = IF Matching = <<>> THEN <<>> ELSE Matching[1]
              /\ result.value = <<>> <=> Matching = <<>>
              /\ result.value # <<>> => result.value.fields.Name = op.field_value
        /\ (pc = "done" /\ ~Returned_) => ~Gets[Len(Gets)].ok

\* the caller gave another formula, and match returned a record that its own
\* formula shows and that is not the first of the table
C12_Witness ==
    /\ Returned_ /\ op.name = "match"
    /\ "formula" \in DOMAIN op.given
    /\ op.given.formula # WantedOptions.formula
    /\ result.value # <<>>
    /\ result.value = Matching[1]
    /\ Len(Matching) > 1

----------------------------------------------------------------------------
(* update: its two calling conventions *)

\* the caller gave a record id together with fields
SingleGiven == {"record_id", "fields"} \subseteq DOMAIN op.args

\* the caller gave a records collection
RecordsGiven == "records" \in DOMAIN op.args

UsageError == result = Raise("RuntimeError") /\ log = <<>> /\ table = table0

\* C15: update given neither a record id with fields nor a records collection
\* ends in a usage error, without any Transport request.
C15_UpdateWithNeitherRaises ==
    (pc = "done" /\ op.name = "update" /\ ~SingleGiven /\ ~RecordsGiven) => UsageError

\* update was given a record id alone and raised
C15_Witness ==
    /\ pc = "done" /\ op.name = "update"
    /\ DOMAIN op.args = {"record_id"}
    /\ UsageError

\* the single-record convention is satisfied: a record id and non-empty fields
SingleUsed == SingleGiven /\ op.args.fields # <<>>

\* the records convention is satisfied: a non-empty collection
RecordsUsed == RecordsGiven /\ op.args.records # <<>>

----------------------------------------------------------------------------
(* The *_by_field calls: what follows the lookup *)

\* every listing request of the lookup has succeeded and the call has ended
LookedUp == pc = "done" /\ \A k \in 1..Len(Gets) : Gets[k].ok

\* the write requests to a record URL issued so far
Writes == SelectSeq(log, LAMBDA e : e.kind \in {"PATCH", "PUT", "DELETE"})

\* C13: when no record matches, delete_by_field raises (the KeyError of looking
\* up the id of match's empty result) instead of returning an empty result; it
\* issues no delete request and the table is unchanged.
C13_DeleteByFieldRaisesOnNoMatch ==
    (op.name = "delete_by_field" /\ LookedUp /\ Matching = <<>>) =>
        /\ result = Raise("KeyError")
        /\ Writes = <<>>
        /\ table = table0

\* the table holds records, none of them matches, and delete_by_field raised
C13_Witness ==
    /\ op.name = "delete_by_field" /\ LookedUp /\ Matching = <<>>
    /\ table0 # <<>>
    /\ result.kind = "raise"
    /\ table = table0

\* C14: when no record matches, update_by_field and replace_by_field return {}
\* without error and issue no write request; when a record matches, they issue
\* exactly one write request (PATCH, PUT), to the URL of the first matching
\* record.
C14_ByFieldWritesFirstMatch ==
    (op.name \in {"update_by_field", "replace_by_field"} /\ LookedUp) =>
        IF Matching = <<>>
        THEN result = Return(<<>>) /\ Writes = <<>> /\ table = table0
        ELSE /\ Len(Writes) = 1
             /\ Writes[1].kind = IF op.name = "update_by_field" THEN "PATCH" ELSE "PUT"
             /\ Writes[1].payload.url = record_url(Matching[1].id)

----------------------------------------------------------------------------
(* get_iter under every call that lists *)

\* the public calls that pull get_iter, through get_all
GetIterCalls ==
    {"get_all", "match", "search", "update_by_field", "replace_by_field", "delete_by_field",
     "mirror"}

\* C17: when a listing request of get_iter fails, the page sequence ends with
\* that error: the failed request is the last thing the call does (no further
\* listing request, no retry, no write), and the call (get_all and every call built
\* on it) raises the error instead of returning the pages fetched so far.
C17_ListingFailureEndsTheCall ==
    (op.name \in GetIterCalls /\ \E k \in 1..Len(Gets) : ~Gets[k].ok) =>
        /\ \A k \in 1..Len(Gets) - 1 : Gets[k].ok
        /\ log[Len(log)].kind = "GET" /\ ~log[Len(log)].ok
        /\ pc = "done"
        /\ result = Raise("HTTPError")
        /\ ~ENABLED Next
        /\ table = table0

\* get_all had fetched a page of records when its second listing request failed,
\* and raised
C17_Witness ==
    /\ op.name = "get_all"
    /\ Len(Gets) = 2 /\ Gets[1].ok /\ ~Gets[2].ok
    /\ all_records # <<>>
    /\ result = Raise("HTTPError")

----------------------------------------------------------------------------
(* mirror: what it deletes and in which order it issues its requests *)

\* the ids of the records the listing of the call in progress has yielded
YieldedIds ==
    UNION {IdSet(log[i].payload) : i \in {j \in 1..Len(log) : log[j].kind = "yield"}}

\* the positions in the log of the requests of one method
At(method) == {i \in 1..Len(log) : log[i].kind = method}

\* C18: mirror sends delete requests only for ids its own initial listing under
\* the options returned; a record the options do not show is never named in a
\* delete request and stays in the table unchanged.
C18_MirrorDeletesOnlyListed ==
    op.name = "mirror" =>
        LET yielded  == YieldedIds
            listed   == IdSet(Listed0)
            unlisted == Unlisted0
        IN  /\ \A i \in At("DELETE") :
                  \A n \in 1..Len(log[i].payload.records) :
                      /\ log[i].payload.records[n] \in yielded
                      /\ log[i].payload.records[n] \in listed
                      /\ log[i].payload.records[n] \notin IdSet(unlisted)
            /\ SelectSeq(table, LAMBDA r : r.id \notin listed /\ r.id <= Len(table0))
                  = unlisted

\* mirror under the view returned: it deleted the records the view showed, and the
\* records the view did not show are still there
C18_Witness ==
    /\ Returned_ /\ op.name = "mirror"
    /\ "view" \in DOMAIN op.options
    /\ Listed0 # <<>> /\ Unlisted0 # <<>>
    /\ \E i \in At("DELETE") : log[i].ok
    /\ \A n \in 1..Len(Unlisted0) : Unlisted0[n] = table[n]

\* C19: the requests of a mirror run come in three strictly ordered phases: every
\* listing request precedes every delete request, every delete request precedes
\* every insert request, and no insert request is issued before the listing has
\* ended and every delete group has completed.
C19_MirrorPhasesInOrder ==
    op.name = "mirror" =>
        /\ \A i \in At("GET"), j \in At("DELETE") \cup At("POST") : i < j
        /\ \A i \in At("DELETE"), j \in At("POST") : i < j
        /\ At("PATCH") \cup At("PUT") = {}
        /\ At("DELETE") \cup At("POST") # {} =>
              /\ LastPage(Gets[Len(Gets)])
              /\ all_records = Listed0
        /\ At("POST") # {} =>
              /\ Cardinality(At("DELETE")) = GroupCount(Len(Listed0))
              /\ \A i \in At("DELETE") : log[i].ok
              /\ func = "insert"

\* mirror returned after three listing requests, two delete groups and one insert
C19_Witness ==
    /\ Returned_ /\ op.name = "mirror"
    /\ Len(Gets) = 3
    /\ Cardinality(At("DELETE")) = 2
    /\ Cardinality(At("POST")) = 1

----------------------------------------------------------------------------
\* C20: the first listing request of get_iter carries no continuation token, and
\* every later one carries exactly the token of the response immediately before
\* it: no token is sent twice or skipped, and no request follows a response
\* without a token.
C20_TokensChainThroughRequests ==
    op.name \in GetIterCalls =>
        /\ Gets # <<>> => Gets[1].payload.offset = None
        /\ \A k \in 2..Len(Gets) :
              /\ Gets[k - 1].ok
              /\ ~Falsy(Gets[k - 1].token)
              /\ Gets[k].payload.offset = Gets[k - 1].token
        /\ \A j, k \in 1..Len(Gets) :
              Gets[j].payload.offset = Gets[k].payload.offset => j = k

\* three listing requests were issued: the second carried the token of the first
\* response, the third that of the second
C20_Witness ==
    /\ op.name \in GetIterCalls
    /\ Len(Gets) = 3
    /\ Gets[1].payload.offset = None
    /\ Gets[2].payload.offset = Token(SmallPage)
    /\ Gets[3].payload.offset = Token(2 * SmallPage)
    /\ Gets[2].token = Token(2 * SmallPage)

----------------------------------------------------------------------------
(* The typecast flag of the write calls *)

\* the write calls that take a typecast argument
TypecastCalls ==
    {"insert", "insert_fields", "batch_insert", "update_records", "update", "batch_update",
     "replace"}

\* C21: every request a write call with a typecast argument sends carries, as
\* its typecast, the value the caller passed.
C21_TypecastPassedThrough ==
    op.name \in TypecastCalls =>
        \A k \in 1..Len(Requests) : Requests[k].payload.typecast = op.typecast

----------------------------------------------------------------------------
(* The waits between the requests of one call *)

\* the public calls that may issue more than one Transport request
MultiRequestCalls == GetIterCalls \cup BatchCalls

\* the positions of the Transport requests in the log
RequestAt == {i \in 1..Len(log) : log[i].kind \in Methods}

\* C22: within one public call that issues more than one Transport request,
\* every two successive requests have at least one rate-limit wait of API_LIMIT
\* between them.
C22_WaitBetweenRequests ==
    op.name \in MultiRequestCalls =>
        \A i, j \in RequestAt :
            i < j => \E m \in (i + 1)..(j - 1) : log[m] = Sleep

\* update_by_field fetched two pages and sent its PATCH: a wait lies between the
\* listing requests and between the last of them and the PATCH
C22_Witness ==
    /\ op.name = "update_by_field" /\ pc = "done"
    /\ Len(Gets) = 2
    /\ At("PATCH") # {}
    /\ Cardinality(RequestAt) = 3
    /\ Cardinality(At("sleep")) = 2

----------------------------------------------------------------------------
(* mirror: a request that fails *)

\* the last request of the call in progress failed
LastRequestFailed == Requests # <<>> /\ ~Requests[Len(Requests)].ok

\* the delete requests of the call in progress that succeeded
AppliedDeletes == Cardinality({i \in At("DELETE") : log[i].ok})

\* the insert requests of the call in progress that succeeded
AppliedInserts == Cardinality({i \in At("POST") : log[i].ok})

\* the table without the records of the first k delete groups of mirror
AfterDeleteGroups(k) ==
    ServiceDelete(table0, Len(table0) + 1,
                  SubSeq(Ids(Listed0), 1, Min(k * MAX_RECORDS_PER_CALL, Len(Listed0)))).table

\* C24: when a request of mirror's listing or delete phase fails, mirror ends in
\* that error and never issues an insert request: the table holds the old records
\* except those of the delete groups already applied and none of the new ones;
\* when a request of the insert phase fails, mirror ends in that error and the
\* deletions stay: none of the records listed is back.
C24_MirrorFailureLeavesPartialEffects ==
    (op.name = "mirror" /\ LastRequestFailed) =>
        LET failed == Requests[Len(Requests)].kind
        IN  /\ pc = "done" /\ result = Raise("HTTPError")
            /\ ~ENABLED Next
            /\ failed \in {"GET", "DELETE"} =>
                  /\ At("POST") = {}
                  /\ table = AfterDeleteGroups(AppliedDeletes)
                  /\ \A n \in 1..Len(table) : table[n].id <= Len(table0)
            /\ failed = "GET" => (At("DELETE") = {} /\ table = table0)
            /\ failed = "POST" =>
                  /\ AppliedDeletes = GroupCount(Len(Listed0))
                  /\ \A n \in 1..Len(Listed0) : Listed0[n].id \notin IdSet(table)
                  /\ table = Unlisted0 \o SubSeq(Created, 1, AppliedInserts * MAX_RECORDS_PER_CALL)

\* mirror's second delete group failed: the ten records of the first group are
\* gone, the eleventh is still there, and no insert request was issued
C24_Witness ==
    /\ op.name = "mirror" /\ LastRequestFailed /\ op.records # <<>>
    /\ Requests[Len(Requests)].kind = "DELETE"
    /\ AppliedDeletes = 1
    /\ Len(table) = Len(table0) - MAX_RECORDS_PER_CALL
    /\ At("POST") = {}

----------------------------------------------------------------------------
(* Generators pulled in any order *)

\* the page sequence get_iter yields under the options when it runs alone on the
\* table: the records served, cut into pages of page_size, one empty page when
\* there is none
AlonePages(options) ==
    LET v    == Visible(table, options)
        size == DictGet(options, "page_size", DefaultPageSize)
        n    == IF v = <<>> THEN 1 ELSE (Len(v) + size - 1) \div size
    IN  [k \in 1..n |-> Slice(v, (k - 1) * size, k * size)]

\* C23: two generators made by separate get_iter calls on one client do not
\* share state: however the pulls from the two interleave, each sends no token
\* first and then only the token of its own previous response, and yields the
\* pages it would yield running alone on the unchanged table, all of them once it
\* is exhausted.
C23_GeneratorsAreIndependent ==
    \A g \in GeneratorIds :
        LET frame == generators[g]
            alone == AlonePages(frame.options)
        IN  frame.pc # "none" =>
              /\ frame.sent # <<>> => frame.sent[1] = None
              /\ \A k \in 2..Len(frame.sent) : frame.sent[k] = frame.received[k - 1]
              /\ Len(frame.pages) <= Len(alone)
              /\ \A k \in 1..Len(frame.pages) : frame.pages[k] = alone[k]
              /\ frame.pc = "exhausted" => frame.pages = alone

\* two generators under different options were pulled in turn, each received
\* tokens the other did not, and both are exhausted after three pages each
C23_Witness ==
    /\ generators[1].pc = "exhausted" /\ generators[2].pc = "exhausted"
    /\ generators[1].options # generators[2].options
    /\ Len(generators[1].pages) = 3 /\ Len(generators[2].pages) = 3
    /\ pulls = <<1, 2, 1, 2, 1, 2>>
    /\ generators[1].received[1] # generators[2].received[1]
    /\ generators[1].sent[2] = generators[1].received[1]
    /\ generators[2].sent[2] = generators[2].received[1]
====
